---- MODULE Spec2Model ----
(***************************************************************************)
(* Model of createChannelsNode (packages/channels/src/node.ts): one        *)
(* channel node listening on a window for 'message' events, its channel   *)
(* record, the outbound buffer, and the three public/inbound operations    *)
(* send, handleEvents and destroy.                                         *)
(***************************************************************************)
EXTENDS Integers, Sequences, FiniteSets, TLC

VARIABLES
  channel,        \* the ChannelsNodeChannel record: buffer, id, origin, source, status
  listening,      \* TRUE while handleEvents is registered on window
  cbMode,         \* what config.onStatusUpdate does: "none", or "send" (calls node.send)
  peerApp,        \* payload numbers of the application messages postMessage delivered, in order
  nSent,          \* number of application messages submitted to send so far
  everConnected,  \* TRUE once setConnectionStatus('connected') has run
  teardown,       \* the destroy() calls made in a row: how many, how many times they
                  \* reported 'disconnected', and the status before the first of them
  out             \* what the running task did (callbacks invoked, posts, error);
                  \* op = "idle" between tasks

vars == <<channel, listening, cbMode, peerApp, nSent, everConnected, teardown, out>>

-----------------------------------------------------------------------------
(* Bounds *)

MaxSend == 2      \* application messages submitted to send
MaxDestroy == 2   \* destroy() calls in a row

-----------------------------------------------------------------------------
(* Values *)

Domain == "sanity/channels"
ConfigId == "overlays"           \* config.id
ConfigConnectTo == "presentation" \* config.connectTo

NullV == "null"
UndefinedV == "undefined"
SessionIds == {"s1", "s2"}

StudioOrigin == "https://studio.example"
OtherOrigin == "https://other.example"

HANDSHAKE_MSG_TYPES == {"handshake/syn", "handshake/syn-ack", "handshake/ack"}
INTERNAL_MSG_TYPES == {"channel/disconnect", "channel/response", "channel/heartbeat"}
AppType == "app/ping"

isHandshakeMessage(type) == type \in HANDSHAKE_MSG_TYPES
isInternalMessage(type) == type \in INTERNAL_MSG_TYPES

\* JavaScript truthiness of the values the record fields can hold
\* (null and undefined are falsy, every string used here is non-empty).
Truthy(v) == v \notin {NullV, UndefinedV}

\* payloads: undefined, {id: ...}, {responseTo: ...}, or an application value
\* numbered seq; ok = FALSE marks a value structured clone cannot serialise.
NoData == [tag |-> "undefined", id |-> UndefinedV, seq |-> 0, ok |-> TRUE]
IdData(i) == [tag |-> "id", id |-> i, seq |-> 0, ok |-> TRUE]
ResponseData(i) == [tag |-> "responseTo", id |-> i, seq |-> 0, ok |-> TRUE]
AppData(n, ok) == [tag |-> "app", id |-> UndefinedV, seq |-> n, ok |-> ok]

DataTruthy(d) == d.tag # "undefined"
DataId(d) == IF d.tag = "id" THEN d.id ELSE UndefinedV

NoEvent == [kind |-> "none", domain |-> NullV, to |-> NullV, from |-> NullV,
            type |-> NullV, connectionId |-> NullV, id |-> NullV, data |-> NoData,
            origin |-> NullV, source |-> NullV]

-----------------------------------------------------------------------------
(* The running call: the fields a handler reads and writes while it runs.   *)
(* threw = TRUE means an exception is unwinding: every later step of the    *)
(* handler is skipped. uuid counts the uuid() values drawn in this call:    *)
(* the k-th message built in a call has id k, so ids are distinct within a  *)
(* call and are not tracked across calls. logged counts the console.error   *)
(* calls, submitted lists the payload numbers passed to send in this call,  *)
(* failedSeq is the payload number of the message whose post threw.         *)

Call(ch) ==
  [ch |-> ch, posts |-> <<>>, statusCalls |-> <<>>, eventCalls |-> <<>>,
   peerApp |-> peerApp, nSent |-> nSent, uuid |-> 0,
   everConn |-> everConnected, threw |-> FALSE, errId |-> 0,
   logged |-> 0, submitted |-> <<>>, failedSeq |-> 0]

\* the error raised without the id of the failed message
PostMessage_NoId(m, msg) ==
  IF ~msg.data.ok
  THEN [m EXCEPT !.threw = TRUE, !.failedSeq = msg.data.seq]
  ELSE [m EXCEPT !.posts = Append(@, [msg |-> msg, target |-> m.ch.source,
                                       targetOrigin |-> m.ch.origin]),
                 !.peerApp = IF msg.data.tag = "app" THEN Append(@, msg.data.seq) ELSE @]

\* channel.source.postMessage(msg, {targetOrigin: channel.origin}) inside try/catch
PostMessage(m, msg) ==
  IF ~msg.data.ok
  THEN [m EXCEPT !.threw = TRUE, !.errId = msg.id, !.failedSeq = msg.data.seq]
  ELSE [m EXCEPT !.posts = Append(@, [msg |-> msg, target |-> m.ch.source,
                                       targetOrigin |-> m.ch.origin]),
                 !.peerApp = IF msg.data.tag = "app" THEN Append(@, msg.data.seq) ELSE @]

ShouldBuffer(type, status) ==
  /\ ~isHandshakeMessage(type)
  /\ ~isInternalMessage(type)
  /\ status \in {"connecting", "reconnecting"}

HasSession(ch) == Truthy(ch.id) /\ Truthy(ch.origin) /\ Truthy(ch.source)

Send(m, type, data) ==
  IF m.threw THEN m
  ELSE IF ShouldBuffer(type, m.ch.status)
  THEN [m EXCEPT !.ch.buffer = Append(@, [type |-> type, data |-> data])]
  ELSE IF HasSession(m.ch)
  THEN PostMessage([m EXCEPT !.uuid = @ + 1],
                   [connectionId |-> m.ch.id, data |-> data, domain |-> Domain,
                    from |-> ConfigId, id |-> m.uuid + 1, to |-> ConfigConnectTo,
                    type |-> type])
  ELSE m

RECURSIVE SendAll(_, _)
SendAll(m, toFlush) ==
  IF toFlush = <<>> THEN m
  ELSE SendAll(Send(m, Head(toFlush).type, Head(toFlush).data), Tail(toFlush))

Flush(m) ==
  IF m.threw THEN m
  ELSE SendAll([m EXCEPT !.ch.buffer = <<>>], m.ch.buffer)

\* config.onStatusUpdate(next): the callback is recorded; a "send" callback
\* submits one more application message when told 'connected'.
OnStatusUpdate(m, next) ==
  LET m1 == [m EXCEPT !.statusCalls = Append(@, next)] IN
  IF cbMode = "send" /\ next = "connected" /\ m1.nSent < MaxSend
  THEN Send([m1 EXCEPT !.nSent = @ + 1, !.submitted = Append(@, m1.nSent + 1)],
            AppType, AppData(m1.nSent + 1, TRUE))
  ELSE m1

FlushOnConnected(m, next) == IF next = "connected" THEN Flush(m) ELSE m

SetConnectionStatus(m, next) ==
  IF m.threw THEN m
  ELSE FlushOnConnected(
         OnStatusUpdate([m EXCEPT !.ch.status = next,
                                  !.everConn = @ \/ next = "connected"], next),
         next)

-----------------------------------------------------------------------------
(* Inbound events *)

\* helpers.ts is not part of the sources at hand: a legacy handshake event is
\* an event of the older protocol's shape.
isLegacyHandshakeMessage(e) == e.kind = "legacy"

\* reading e.data.domain raises a TypeError when e.data is null or undefined
DataUnreadable(e) == e.kind = "nullish"

\* the check of the 'to' field left out
isValidMessageEvent_NoTo(e) ==
  /\ e.domain = Domain
  /\ e.from = ConfigConnectTo
  /\ e.type # "channel/response"

isValidMessageEvent(e) ==
  /\ e.domain = Domain
  /\ e.to = ConfigId
  /\ e.from = ConfigConnectTo
  /\ e.type # "channel/response"

\* the origin verified for non-handshake messages only
OriginRejected_NotHandshake(ch, e) ==
  Truthy(ch.origin) /\ e.origin # ch.origin /\ ~isHandshakeMessage(e.type)

OriginRejected(ch, e) == Truthy(ch.origin) /\ e.origin # ch.origin

UpdateSource(ch, e) ==
  IF Truthy(e.source) /\ ch.source # e.source
  THEN [ch EXCEPT !.source = e.source]
  ELSE ch

IsHandshakeWithData(e) == isHandshakeMessage(e.type) /\ DataTruthy(e.data)

\* the echoed id not compared with channel.id
AckMatches_AnyId(ch, e) == e.type = "handshake/ack"

AckMatches(ch, e) == e.type = "handshake/ack" /\ DataId(e.data) = ch.id

SessionMatches(ch, e) == e.connectionId = ch.id /\ e.origin = ch.origin

\* the syn-ack built before channel.id is replaced: it carries the old id
HandleSyn_OldId(m, e) ==
  LET m1 == Send([m EXCEPT !.ch.origin = e.origin], "handshake/syn-ack", IdData(m.ch.id))
  IN SetConnectionStatus([m1 EXCEPT !.ch.id = DataId(e.data)], "connecting")

\* the handshake/syn branch
HandleSyn(m, e) ==
  LET m1 == [m EXCEPT !.ch.origin = e.origin, !.ch.id = DataId(e.data)]
      m2 == SetConnectionStatus(m1, "connecting")
  IN Send(m2, "handshake/syn-ack", IdData(m2.ch.id))

\* config.onEvent?.(type, data), then the response
HandleApp(m, e) ==
  Send([m EXCEPT !.eventCalls = Append(@, [type |-> e.type, data |-> e.data])],
       "channel/response", ResponseData(e.id))

HandleEvents(m, e) ==
  IF isLegacyHandshakeMessage(e) THEN [m EXCEPT !.logged = @ + 1]
  ELSE IF DataUnreadable(e) THEN [m EXCEPT !.threw = TRUE]
  ELSE IF ~isValidMessageEvent(e) THEN m
  ELSE IF OriginRejected(m.ch, e) THEN m
  ELSE LET m1 == [m EXCEPT !.ch = UpdateSource(m.ch, e)] IN
       IF IsHandshakeWithData(e)
       THEN IF e.type = "handshake/syn" THEN HandleSyn(m1, e)
            ELSE IF AckMatches(m1.ch, e) THEN SetConnectionStatus(m1, "connected")
            ELSE m1
       ELSE IF SessionMatches(m1.ch, e)
       THEN IF e.type = "channel/disconnect"
            THEN SetConnectionStatus(m1, "disconnected")
            ELSE HandleApp(m1, e)
       ELSE m1

\* the early return on 'disconnected' left out
Disconnect_NoGuard(m) == SetConnectionStatus(m, "disconnected")

\* the commented-out send('channel/disconnect', { id: channel.id }) restored
Disconnect_Notify(m) ==
  IF m.ch.status \in {"disconnected"} THEN m
  ELSE SetConnectionStatus(Send(m, "channel/disconnect", IdData(m.ch.id)),
                           "disconnected")

Disconnect(m) ==
  IF m.ch.status \in {"disconnected"} THEN m
  ELSE SetConnectionStatus(m, "disconnected")

\* the windows that post to this window, each with the origin it has; the
\* last one is an event that carries no source
Senders ==
  { [origin |-> StudioOrigin, source |-> "w1"],
    [origin |-> OtherOrigin, source |-> "w3"],
    [origin |-> StudioOrigin, source |-> NullV] }

ConnectionIds == SessionIds \cup {NullV}
HandshakePayloads == {NoData} \cup {IdData(i) : i \in ConnectionIds}

Envelope(addr, type, cid, data, s) ==
  [kind |-> "envelope", domain |-> addr[1], to |-> addr[2], from |-> addr[3],
   type |-> type, connectionId |-> cid, id |-> "m1", data |-> data,
   origin |-> s.origin, source |-> s.source]

Addressed == <<Domain, ConfigId, ConfigConnectTo>>
Misaddressed ==
  { <<"other/domain", ConfigId, ConfigConnectTo>>,
    <<Domain, "loaders", ConfigConnectTo>>,
    <<Domain, ConfigId, "stranger">> }

\* a handshake/syn with a payload is accepted whatever its connectionId, so
\* those carry none; every other shape is taken with every connectionId
AddressedEvents ==
  { Envelope(Addressed, "handshake/syn", NullV, IdData(i), s) :
      i \in ConnectionIds, s \in Senders }
  \cup
  { Envelope(Addressed, "handshake/syn", c, NoData, s) :
      c \in ConnectionIds, s \in Senders }
  \cup
  { Envelope(Addressed, "handshake/ack", c, d, s) :
      c \in ConnectionIds, d \in HandshakePayloads, s \in Senders }
  \cup
  { Envelope(Addressed, "handshake/syn-ack", "s1", d, s) :
      d \in {NoData, IdData("s1")}, s \in Senders }
  \cup
  { Envelope(Addressed, t, c, NoData, s) :
      t \in {"channel/disconnect", "channel/heartbeat"},
      c \in ConnectionIds, s \in Senders }
  \cup
  { Envelope(Addressed, "channel/response", c, ResponseData("m0"), s) :
      c \in SessionIds, s \in Senders }
  \cup
  { Envelope(Addressed, AppType, c, d, s) :
      c \in ConnectionIds, d \in {NoData, AppData(1, TRUE)}, s \in Senders }

\* events of the same shapes addressed to another node, from another node, or
\* of another domain
MisaddressedEvents ==
  { Envelope(a, t, c, IF isHandshakeMessage(t) THEN IdData(c) ELSE NoData, s) :
      a \in Misaddressed,
      t \in {"handshake/syn", "handshake/ack", "channel/disconnect", AppType},
      c \in SessionIds,
      s \in {x \in Senders : Truthy(x.source)} }

OtherEvents ==
  { [NoEvent EXCEPT !.kind = k, !.origin = StudioOrigin, !.source = "w1"] :
      k \in {"legacy", "nullish"} }

Events == AddressedEvents \cup MisaddressedEvents \cup OtherEvents

-----------------------------------------------------------------------------
(* State machine *)

Channel0 ==
  [buffer |-> <<>>, id |-> NullV, origin |-> NullV, source |-> NullV,
   status |-> "connecting"]

IdleOut ==
  [op |-> "idle", pre |-> Channel0, ev |-> NoEvent, arg |-> NoData,
   statusCalls |-> <<>>, eventCalls |-> <<>>, posts |-> <<>>,
   threw |-> FALSE, errId |-> 0, logged |-> 0, submitted |-> <<>>, failedSeq |-> 0]

NoTeardown == [calls |-> 0, notified |-> 0, statusBefore |-> "none"]

CountOf(seq, v) == Cardinality({i \in 1..Len(seq) : seq[i] = v})

Out(op, pre, m, e, arg) ==
  [op |-> op, pre |-> pre, ev |-> e, arg |-> arg,
   statusCalls |-> m.statusCalls, eventCalls |-> m.eventCalls,
   posts |-> m.posts, threw |-> m.threw, errId |-> m.errId,
   logged |-> m.logged, submitted |-> m.submitted, failedSeq |-> m.failedSeq]

Commit(op, m, e, arg) ==
  /\ channel' = m.ch
  /\ peerApp' = m.peerApp
  /\ nSent' = m.nSent
  /\ everConnected' = m.everConn
  /\ out' = Out(op, channel, m, e, arg)

\* createChannelsNode: the record is built, then initialise() registers the
\* listener and reports 'connecting'
Init ==
  /\ cbMode \in {"none", "send"}
  /\ channel = Channel0
  /\ listening = TRUE
  /\ peerApp = <<>>
  /\ nSent = 0
  /\ everConnected = FALSE
  /\ teardown = NoTeardown
  /\ out = [op |-> "init", pre |-> Channel0, ev |-> NoEvent, arg |-> NoData,
            statusCalls |-> <<"connecting">>, eventCalls |-> <<>>,
            posts |-> <<>>, threw |-> FALSE, errId |-> 0,
            logged |-> 0, submitted |-> <<>>, failedSeq |-> 0]

\* node.send(type, data)
SendPublic ==
  /\ out.op = "idle"
  /\ nSent < MaxSend
  /\ \E ok \in BOOLEAN :
       LET data == AppData(nSent + 1, ok)
           m == Send([Call(channel) EXCEPT !.nSent = @ + 1,
                                           !.submitted = <<nSent + 1>>],
                     AppType, data)
       IN Commit("send", m, NoEvent, data)
  /\ teardown' = NoTeardown
  /\ UNCHANGED <<listening, cbMode>>

\* a 'message' event is dispatched on window; handleEvents runs only while
\* it is registered
Receive ==
  /\ out.op = "idle"
  /\ \E e \in Events :
       LET m == IF listening THEN HandleEvents(Call(channel), e) ELSE Call(channel)
       IN Commit("receive", m, e, NoData)
  /\ teardown' = NoTeardown
  /\ UNCHANGED <<listening, cbMode>>

\* destroy without the removal of the listener
Destroy_KeepListener ==
  /\ out.op = "idle"
  /\ teardown.calls < MaxDestroy
  /\ LET m == Disconnect(Call(channel)) IN
       /\ Commit("destroy", m, NoEvent, NoData)
       /\ teardown' =
            [calls |-> teardown.calls + 1,
             notified |-> teardown.notified + CountOf(m.statusCalls, "disconnected"),
             statusBefore |-> IF teardown.calls = 0 THEN channel.status
                              ELSE teardown.statusBefore]
  /\ UNCHANGED <<listening, cbMode>>

\* node.destroy()
Destroy ==
  /\ out.op = "idle"
  /\ teardown.calls < MaxDestroy
  /\ LET m == Disconnect(Call(channel)) IN
       /\ Commit("destroy", m, NoEvent, NoData)
       /\ teardown' =
            [calls |-> teardown.calls + 1,
             notified |-> teardown.notified + CountOf(m.statusCalls, "disconnected"),
             statusBefore |-> IF teardown.calls = 0 THEN channel.status
                              ELSE teardown.statusBefore]
  /\ listening' = FALSE
  /\ UNCHANGED cbMode

\* the task has returned: control is back with the event loop, which takes
\* the next task
Return ==
  /\ out.op # "idle"
  /\ out' = IdleOut
  /\ UNCHANGED <<channel, listening, cbMode, peerApp, nSent, everConnected, teardown>>

Next == SendPublic \/ Receive \/ Destroy \/ Return

Spec == Init /\ [][Next]_vars

-----------------------------------------------------------------------------
(* Properties *)

AppTypeCalls(calls) ==
  {i \in 1..Len(calls) : isHandshakeMessage(calls[i].type) \/ isInternalMessage(calls[i].type)}

NoCallbacks == out.statusCalls = <<>> /\ out.eventCalls = <<>>

Misaddress(e) == e.domain # Domain \/ e.to # ConfigId \/ e.from # ConfigConnectTo

\* C1 (ordering): the application messages posted to the peer are in the
\* order in which they were passed to send (payload numbers count the send
\* calls, so the posted numbers increase).
C1_Ordering ==
  \A i, j \in 1..Len(peerApp) : i < j => peerApp[i] < peerApp[j]

\* C2 (no premature delivery): an application message has been posted to the
\* peer only if the node's status has been set to connected before.
C2_NoPrematureDelivery ==
  peerApp # <<>> => everConnected

\* C3 (buffering): when the status is not connected, send of an application
\* message appends {type, data} to the buffer, posts nothing, raises no error
\* and leaves id, origin, source and status unchanged.
C3_Buffering ==
  (out.op = "send" /\ out.pre.status # "connected") =>
     /\ channel = [out.pre EXCEPT !.buffer = Append(@, [type |-> AppType, data |-> out.arg])]
     /\ out.posts = <<>>
     /\ ~out.threw

\* C4 (session pinning): with channel.id set, an inbound envelope other than
\* a handshake/syn whose connectionId differs from channel.id never invokes
\* onEvent and never changes the status to connected or disconnected.
C4_SessionPinning ==
  ( /\ out.op = "receive"
    /\ out.ev.kind = "envelope"
    /\ Truthy(out.pre.id)
    /\ out.ev.connectionId # out.pre.id
    /\ out.ev.type # "handshake/syn" ) =>
     /\ out.eventCalls = <<>>
     /\ CountOf(out.statusCalls, "connected") = 0
     /\ CountOf(out.statusCalls, "disconnected") = 0
     /\ channel.status = out.pre.status

\* C5 (origin pinning): once channel.origin is set, an inbound event of any
\* other origin has no effect at all (record unchanged, no callback, nothing
\* posted), and channel.origin never changes once it is set.
C5_OriginPinning ==
  /\ (out.op = "receive" /\ Truthy(out.pre.origin) /\ out.ev.origin # out.pre.origin) =>
        (channel = out.pre /\ NoCallbacks /\ out.posts = <<>>)
  /\ (out.op # "idle" /\ Truthy(out.pre.origin)) => channel.origin = out.pre.origin

\* a handshake/ack of the current session id, sent to this node from another
\* origin while the node is connecting, was received
C5_Witness ==
  /\ out.op = "receive"
  /\ listening
  /\ isValidMessageEvent(out.ev)
  /\ Truthy(out.pre.origin)
  /\ out.ev.origin # out.pre.origin
  /\ out.pre.status = "connecting"
  /\ out.ev.type = "handshake/ack"
  /\ Truthy(out.pre.id)
  /\ DataId(out.ev.data) = out.pre.id
  /\ out.ev.connectionId = out.pre.id

\* C6 (multiplexing isolation): an inbound event of another domain, addressed
\* to another node or sent by another node than connectTo invokes no
\* callback, posts nothing and leaves the channel record unchanged.
C6_MultiplexingIsolation ==
  (out.op = "receive" /\ Misaddress(out.ev)) =>
     (channel = out.pre /\ NoCallbacks /\ out.posts = <<>>)

\* a handshake/syn addressed to the node "loaders" reached this listening
\* node before any origin was pinned
C6_Witness ==
  /\ out.op = "receive"
  /\ listening
  /\ out.ev.kind = "envelope"
  /\ out.ev.domain = Domain
  /\ out.ev.to # ConfigId
  /\ out.ev.from = ConfigConnectTo
  /\ out.ev.type = "handshake/syn"
  /\ DataTruthy(out.ev.data)
  /\ ~Truthy(out.pre.origin)

\* C7 (application handler contract): onEvent is invoked at most once per
\* inbound envelope and never for an envelope of a handshake type or of an
\* internal type.
C7_HandlerContract ==
  /\ Len(out.eventCalls) <= 1
  /\ AppTypeCalls(out.eventCalls) = {}

\* C8 as stated (idempotent teardown): two destroy calls in a row invoke
\* onStatusUpdate('disconnected') exactly once in total, and the second
\* changes nothing and invokes no callback.
C8_ExactlyOnce ==
  (out.op = "destroy" /\ teardown.calls = 2) =>
     /\ teardown.notified = 1
     /\ channel = out.pre
     /\ NoCallbacks

\* C8 as amended: two (or more) destroy calls in a row invoke
\* onStatusUpdate('disconnected') once in total when the node was not
\* disconnected before the first of them and not at all when it was; every
\* call after the first changes nothing, invokes no callback, posts nothing.
C8_IdempotentTeardown ==
  (out.op = "destroy" /\ teardown.calls >= 2) =>
     /\ teardown.notified = (IF teardown.statusBefore = "disconnected" THEN 0 ELSE 1)
     /\ channel = out.pre
     /\ NoCallbacks
     /\ out.posts = <<>>

\* destroy was called twice in a row on a connected node
C8_Witness ==
  /\ out.op = "destroy"
  /\ teardown.calls = 2
  /\ teardown.statusBefore = "connected"

\* C9 (disconnected is terminal): an inbound message that arrives when the
\* status is disconnected does not move the node to connecting or connected
\* and invokes no onStatusUpdate.
C9_DisconnectedTerminal ==
  (out.op = "receive" /\ out.pre.status = "disconnected") =>
     /\ channel.status \notin {"connecting", "connected"}
     /\ out.statusCalls = <<>>

C11_LegacyUnhealthy ==
  (out.op = "receive" /\ listening /\ isLegacyHandshakeMessage(out.ev)) =>
     /\ CountOf(out.statusCalls, "unhealthy") = 1
     /\ channel = out.pre
     /\ out.eventCalls = <<>>

\* the event handled by the running task passed the address and origin checks
Accepted ==
  /\ out.op = "receive"
  /\ listening
  /\ out.ev.kind = "envelope"
  /\ isValidMessageEvent(out.ev)
  /\ ~OriginRejected(out.pre, out.ev)

\* the running task received a handshake/ack that echoes the channel's id
AckOfSession ==
  /\ Accepted
  /\ out.ev.type = "handshake/ack"
  /\ DataTruthy(out.ev.data)
  /\ DataId(out.ev.data) = out.pre.id

SynWithData ==
  Accepted /\ out.ev.type = "handshake/syn" /\ DataTruthy(out.ev.data)

BecameConnected ==
  \/ CountOf(out.statusCalls, "connected") > 0
  \/ (out.op # "idle" /\ channel.status = "connected" /\ out.pre.status # "connected")

\* C12 as stated (connected only after confirmation): the status becomes
\* connected, and 'connected' is reported, only by a handshake/ack whose
\* data.id equals channel.id; a handshake/syn leaves the status connecting
\* with the id set; and from then until such an ack the status is connecting.
C12_ConnectingUntilAck ==
  /\ BecameConnected => AckOfSession
  /\ SynWithData => (channel.status = "connecting" /\ channel.id = DataId(out.ev.data))
  /\ ( /\ out.op \in {"send", "receive", "destroy"}
       /\ out.pre.status = "connecting"
       /\ Truthy(out.pre.id)
       /\ ~AckOfSession ) => channel.status = "connecting"

\* C12 as amended: as above, but until the ack the status is connecting or,
\* when a local destroy or a channel/disconnect of the session intervened,
\* disconnected; it is never connected.
C12_ConnectedOnlyAfterAck ==
  /\ BecameConnected => AckOfSession
  /\ SynWithData => (channel.status = "connecting" /\ channel.id = DataId(out.ev.data))
  /\ ( /\ out.op \in {"send", "receive", "destroy"}
       /\ out.pre.status = "connecting"
       /\ Truthy(out.pre.id)
       /\ ~AckOfSession ) =>
        \/ channel.status = "connecting"
        \/ /\ channel.status = "disconnected"
           /\ \/ out.op = "destroy"
              \/ (Accepted /\ out.ev.type = "channel/disconnect"
                           /\ out.ev.connectionId = out.pre.id)

\* a handshake/ack echoing the id of the pending session connected the node
C12_Witness ==
  /\ AckOfSession
  /\ out.pre.status = "connecting"
  /\ Truthy(out.pre.id)
  /\ channel.status = "connected"
  /\ out.statusCalls = <<"connected">>

\* what the handshake-open step does: origin and id taken from the event,
\* 'connecting' reported, one handshake/syn-ack with that id posted to the
\* event's source and origin, the buffer left as it was
SynStep ==
  /\ channel.origin = out.ev.origin
  /\ channel.id = DataId(out.ev.data)
  /\ channel.source = out.ev.source
  /\ channel.status = "connecting"
  /\ channel.buffer = out.pre.buffer
  /\ out.statusCalls = <<"connecting">>
  /\ Len(out.posts) = 1
  /\ out.posts[1].msg.type = "handshake/syn-ack"
  /\ out.posts[1].msg.data = IdData(DataId(out.ev.data))
  /\ out.posts[1].msg.connectionId = DataId(out.ev.data)
  /\ out.posts[1].targetOrigin = out.ev.origin
  /\ out.posts[1].target = out.ev.source

ResponsePosts ==
  {i \in 1..Len(out.posts) : out.posts[i].msg.type = "channel/response"}

IsAppType(type) == ~isHandshakeMessage(type) /\ ~isInternalMessage(type)

\* C14 (response correlation): whenever onEvent was invoked for an inbound
\* application envelope, exactly one channel/response whose responseTo is
\* that envelope's id is posted; an inbound channel/response reaches no
\* callback and is answered with nothing.
C14_ResponseCorrelation ==
  /\ (out.op = "receive" /\ IsAppType(out.ev.type) /\ out.eventCalls # <<>>) =>
        /\ Cardinality(ResponsePosts) = 1
        /\ \A i \in ResponsePosts : out.posts[i].msg.data = ResponseData(out.ev.id)
  /\ (out.op = "receive" /\ out.ev.type = "channel/response") =>
        (out.eventCalls = <<>> /\ out.posts = <<>> /\ channel = out.pre)

\* C15 (peer sink update rule): channel.source changes only on an event
\* whose origin equals the already pinned channel.origin, or on the
\* handshake/syn that pins the origin.
C15_SourceUpdateRule ==
  (out.op # "idle" /\ channel.source # out.pre.source) =>
     \/ (out.op = "receive" /\ Truthy(out.pre.origin) /\ out.ev.origin = out.pre.origin)
     \/ (SynWithData /\ ~Truthy(out.pre.origin))

\* C16 (delivery failure): when a post of a message built by send throws, the
\* error carries the id of that message (the k-th message built in the call,
\* all earlier ones having been posted); a failing public send leaves
\* status, id, origin and source as they were; a failure while the buffer is
\* flushed leaves the status connected and id and origin as they were; the
\* failed message is neither posted in the call nor put back into the buffer.
PostFailed == out.threw /\ out.op \in {"send", "receive"} /\ out.ev.kind # "nullish"

BufferSeqs(ch) == {ch.buffer[i].data.seq : i \in 1..Len(ch.buffer)}

PostedSeqs == {out.posts[i].msg.data.seq :
                 i \in {j \in 1..Len(out.posts) : out.posts[j].msg.data.tag = "app"}}

C16_DeliveryFailure ==
  PostFailed =>
    /\ out.errId = Len(out.posts) + 1
    /\ out.failedSeq \notin BufferSeqs(channel)
    /\ out.failedSeq \notin PostedSeqs
    /\ channel.id = out.pre.id
    /\ channel.origin = out.pre.origin
    /\ out.op = "send" => /\ channel.status = out.pre.status
                          /\ channel.source = out.pre.source
                          /\ out.failedSeq = out.arg.seq
    /\ out.op = "receive" => channel.status = "connected"

C16_Witness ==
  /\ out.op = "send"
  /\ out.threw
  /\ out.pre.status = "connected"
  /\ HasSession(out.pre)
  /\ out.errId = 1

\* C17 (destroy stops inbound processing): destroy removes the listener, the
\* listener is never registered again, and an inbound event dispatched while
\* no listener is registered (a handshake/syn or handshake/ack from the pinned
\* origin included) calls no callback, posts nothing, raises nothing and
\* leaves the channel record unchanged.
InertReceive ==
  (out'.op = "receive") =>
     /\ channel' = channel
     /\ out'.statusCalls = <<>>
     /\ out'.eventCalls = <<>>
     /\ out'.posts = <<>>
     /\ ~out'.threw
     /\ peerApp' = peerApp

C17_DestroyStopsInbound ==
  [][ /\ (out'.op = "destroy") => ~listening'
      /\ ~listening => ~listening'
      /\ ~listening => InertReceive ]_vars

C17_Witness ==
  /\ out.op = "receive"
  /\ ~listening
  /\ ~Misaddress(out.ev)
  /\ out.ev.type \in {"handshake/syn", "handshake/ack"}
  /\ DataTruthy(out.ev.data)
  /\ Truthy(channel.origin)
  /\ out.ev.origin = channel.origin
  /\ Truthy(out.ev.source)

\* C18 (malformed input never throws): the inbound handler returns without
\* raising for an event whose data is null or undefined, and leaves the
\* channel record unchanged.
C18_MalformedNeverThrows ==
  (out.op = "receive" /\ listening /\ DataUnreadable(out.ev)) =>
     /\ ~out.threw
     /\ channel = out.pre

\* C19 (connected implies an established session): whenever the status is
\* connected, channel.id, channel.origin and channel.source are all non-null.
C19_ConnectedHasSession ==
  channel.status = "connected" => HasSession(channel)

\* C20 (no silent loss): every application message that was in the buffer
\* before a call, or was passed to send in the call, is afterwards in exactly
\* one of: the buffer, the messages posted in the call, the message whose post
\* raised the error; and no message has been posted to the peer twice.
Pending == BufferSeqs(out.pre) \cup {out.submitted[i] : i \in 1..Len(out.submitted)}

Raised == IF out.threw /\ out.failedSeq # 0 THEN {out.failedSeq} ELSE {}

C20_NoSilentLoss ==
  /\ out.op \notin {"idle", "init"} =>
       /\ Pending = BufferSeqs(channel) \cup PostedSeqs \cup Raised
       /\ BufferSeqs(channel) \cap PostedSeqs = {}
       /\ Len(channel.buffer) = Cardinality(BufferSeqs(channel))
  /\ \A i, j \in 1..Len(peerApp) : peerApp[i] = peerApp[j] => i = j

\* C21 (application handler only on a confirmed connection): onEvent is
\* invoked by an inbound envelope only when the status was connected at its
\* arrival, never while it is connecting or disconnected.
C21_HandlerOnlyWhenConnected ==
  (out.op = "receive" /\ out.eventCalls # <<>>) =>
     /\ out.pre.status = "connected"
     /\ channel.status = "connected"

====
